---- MODULE Spec2Model ----
(***************************************************************************)
(* Model of wifi-heatmap.py: the signal store (PointSignals, Signals), its *)
(* CSV export and import, and the heatmap path of App.show_heatmap with    *)
(* the linear-kernel Rbf interpolation and the contour levels.             *)
(*                                                                         *)
(* Text is modelled as sequences of one-character strings, so that the     *)
(* header format "%s;%s", str.split(';', 1), str(int) and int(str) are     *)
(* computed and not assumed.  The csv module's quoting layer is taken as   *)
(* what it is, a lossless list-of-fields encoding: a file is a header (a   *)
(* sequence of fields) and a sequence of rows (each a sequence of fields). *)
(* A Python dict is modelled with its insertion order where the code       *)
(* iterates it (Signals._signals) and as a function where it does not.     *)
(***************************************************************************)
EXTENDS Integers, Sequences, FiniteSets, TLC

VARIABLES
    keyspace,   \* which emitter keys the wireless scan can report
    signals,    \* FloorPlan._signals._signals: insertion-ordered dict pos -> PointSignals
    csvfile,    \* the survey file last written by save_survey (NoFile before that)
    saved,      \* history: the store content csvfile was written from
    pre,        \* history: the store as it was when the last operation began
    src,        \* history: the file the last operation read (NoFile if it read none)
    calls,      \* history: positions FloorPlan.add_point_signals was called with, last operation
    err,        \* the exception the last operation ended with ("none" if it returned)
    lastOp,     \* the last operation run
    lastPut,    \* history: position -> the PointSignals last passed to Signals.add_point_signals
    recency,    \* history: stored positions, least recently inserted first
    hm,         \* history: what show_heatmap did, if it was the last operation
    steps,      \* operations run so far
    fval,       \* a field value handed to the contour classification
    band        \* the contour band found for fval

vars == <<keyspace, signals, csvfile, saved, pre, src, calls, err, lastOp,
          lastPut, recency, hm, steps, fval, band>>

\* ---------------------------------------------------------------- bounds

MaxSteps == 4
FieldLo == 90
FieldHi == 10

\* ------------------------------------------------------------------ text

\* The characters used, in code point order (Python compares str by code point).
Alphabet ==
    <<" ", "+", "-", "0", "1", "2", "3", "4", "5", "6", "7", "8", "9", ";",
      "X", "Y", "_", "a", "b", "m", "n", "x", "z">>

Code(c) == CHOOSE i \in 1..Len(Alphabet) : Alphabet[i] = c

Digits == <<"0", "1", "2", "3", "4", "5", "6", "7", "8", "9">>

IsDigit(c) == \E i \in 1..10 : Digits[i] = c

DigitVal(c) == (CHOOSE i \in 1..10 : Digits[i] = c) - 1

\* s < t for str
RECURSIVE StrLess(_, _)
StrLess(s, t) ==
    IF t = <<>> THEN FALSE
    ELSE IF s = <<>> THEN TRUE
    ELSE IF Head(s) = Head(t) THEN StrLess(Tail(s), Tail(t))
    ELSE Code(Head(s)) < Code(Head(t))

RECURSIVE NatToStr(_)
NatToStr(n) ==
    IF n < 10 THEN <<Digits[n + 1]>>
    ELSE NatToStr(n \div 10) \o <<Digits[(n % 10) + 1]>>

\* str(n), as csv.writer applies it to an int field
IntToStr(n) == IF n < 0 THEN <<"-">> \o NatToStr(-n) ELSE NatToStr(n)

RECURSIVE Strip(_)
Strip(s) ==
    IF s = <<>> THEN s
    ELSE IF Head(s) = " " THEN Strip(Tail(s))
    ELSE IF s[Len(s)] = " " THEN Strip(SubSeq(s, 1, Len(s) - 1))
    ELSE s

\* the digits part of an int literal: digits, single underscores between them
DigitsOk(s) ==
    /\ Len(s) > 0
    /\ IsDigit(s[1]) /\ IsDigit(s[Len(s)])
    /\ \A i \in 1..Len(s) : IsDigit(s[i]) \/ s[i] = "_"
    /\ \A i \in 1..(Len(s) - 1) : ~(s[i] = "_" /\ s[i + 1] = "_")

RECURSIVE DigitsVal(_, _)
DigitsVal(s, acc) ==
    IF s = <<>> THEN acc
    ELSE IF Head(s) = "_" THEN DigitsVal(Tail(s), acc)
    ELSE DigitsVal(Tail(s), 10 * acc + DigitVal(Head(s)))

\* a variant of int() that takes any text for 0
ParseIntLenient(s) == [ok |-> TRUE, val |-> 0]

\* int(s) for a str: [ok, val]; ok = FALSE stands for ValueError
ParseInt(s) ==
    LET t == Strip(s)
        signed == t # <<>> /\ (Head(t) = "-" \/ Head(t) = "+")
        body == IF signed THEN Tail(t) ELSE t
    IN  IF DigitsOk(body)
        THEN [ok |-> TRUE,
              val |-> IF signed /\ Head(t) = "-" THEN -DigitsVal(body, 0)
                      ELSE DigitsVal(body, 0)]
        ELSE [ok |-> FALSE, val |-> 0]

\* index of the first ';' of s, 0 if there is none
FirstSemi(s) ==
    IF \E i \in 1..Len(s) : s[i] = ";"
    THEN CHOOSE i \in 1..Len(s) : s[i] = ";" /\ \A j \in 1..(i - 1) : s[j] # ";"
    ELSE 0

\* index of the last ';' of s, 0 if there is none
LastSemi(s) ==
    IF \E i \in 1..Len(s) : s[i] = ";"
    THEN CHOOSE i \in 1..Len(s) : s[i] = ";" /\ \A j \in (i + 1)..Len(s) : s[j] # ";"
    ELSE 0

\* a variant splitting at the last ';' (k.rsplit(';', 1))
SplitHeaderLast(k) ==
    LET i == LastSemi(k)
    IN  IF i = 0 THEN [ok |-> FALSE, bssid |-> k, ssid |-> <<>>]
        ELSE [ok |-> TRUE, bssid |-> SubSeq(k, 1, i - 1),
              ssid |-> SubSeq(k, i + 1, Len(k))]

\* bssid, ssid = k.split(';', 1); ok = FALSE stands for the ValueError of
\* unpacking a one-element list
SplitHeader(k) ==
    LET i == FirstSemi(k)
    IN  IF i = 0 THEN [ok |-> FALSE, bssid |-> k, ssid |-> <<>>]
        ELSE [ok |-> TRUE, bssid |-> SubSeq(k, 1, i - 1),
              ssid |-> SubSeq(k, i + 1, Len(k))]

\* "%s;%s" % (bssid, ssid)
FormatHeader(b) == b[1] \o <<";">> \o b[2]

\* ---------------------------------------------------- PointSignals, Signal

Signal(ssid, bssid, rssi) == [ssid |-> ssid, bssid |-> bssid, rssi |-> rssi]

\* PointSignals(): an empty dict
EmptyPS == <<>>

\* PointSignals.add_signal
add_signal(p, s) ==
    [k \in DOMAIN p \cup {s.bssid} |-> IF k = s.bssid THEN s ELSE p[k]]

\* Python's None, and an int, as the elements of get_all_rssi's list
NoneVal == [isNone |-> TRUE, val |-> 0]
IntVal(n) == [isNone |-> FALSE, val |-> n]

\* a variant giving 0 for a missing bssid
get_rssi_zero(sd, b) == IF b \in DOMAIN sd THEN IntVal(sd[b].rssi) ELSE IntVal(0)

\* get_rssi of PointSignals.get_all_rssi: falls off the end (None) for a missing bssid
get_rssi(sd, b) == IF b \in DOMAIN sd THEN IntVal(sd[b].rssi) ELSE NoneVal

\* PointSignals.get_all_rssi
get_all_rssi(sd, bssids) == [i \in 1..Len(bssids) |-> get_rssi(sd, bssids[i])]

\* ------------------------------------------------------------- Signals

Positions(sigs) == {sigs[i].pos : i \in 1..Len(sigs)}

IndexOf(sigs, point) == CHOOSE i \in 1..Len(sigs) : sigs[i].pos = point

\* a variant keeping every insertion (a list of samples)
add_point_signals_append(sigs, point, ps) == Append(sigs, [pos |-> point, ps |-> ps])

\* a variant updating the stored PointSignals with the new one
add_point_signals_merge(sigs, point, ps) ==
    IF point \in Positions(sigs)
    THEN [sigs EXCEPT ![IndexOf(sigs, point)].ps =
              [k \in DOMAIN @ \cup DOMAIN ps |-> IF k \in DOMAIN ps THEN ps[k] ELSE @[k]]]
    ELSE Append(sigs, [pos |-> point, ps |-> ps])

\* Signals.add_point_signals: self._signals[point] = point_signals.  A dict
\* keeps a key's place when its value is replaced and appends a new key.
add_point_signals(sigs, point, ps) ==
    IF point \in Positions(sigs)
    THEN [sigs EXCEPT ![IndexOf(sigs, point)].ps = ps]
    ELSE Append(sigs, [pos |-> point, ps |-> ps])

\* the value stored under a position (the position must be stored)
At(sigs, point) == sigs[IndexOf(sigs, point)].ps

\* the dict `seen` of get_all_bssids after the loops: bssid -> ssid, a later
\* position in iteration order overwriting an earlier one
RECURSIVE Seen(_, _)
Seen(sigs, seen) ==
    IF sigs = <<>> THEN seen
    ELSE LET sd == Head(sigs).ps
         IN  Seen(Tail(sigs),
                  [b \in DOMAIN seen \cup DOMAIN sd |->
                      IF b \in DOMAIN sd THEN sd[b].ssid ELSE seen[b]])

\* sorted(S) for a set of str
RECURSIVE SortStrs(_)
SortStrs(S) ==
    IF S = {} THEN <<>>
    ELSE LET m == CHOOSE s \in S : \A t \in S : ~StrLess(t, s)
         IN  <<m>> \o SortStrs(S \ {m})

\* Signals.get_all_bssids: the (bssid, ssid) pairs sorted by bssid
get_all_bssids(sigs) ==
    LET seen == Seen(sigs, <<>>)
        keys == SortStrs(DOMAIN seen)
    IN  [i \in 1..Len(keys) |-> <<keys[i], seen[keys[i]]>>]

\* ------------------------------------------------------------------ csv

NoFile == [header |-> <<>>, rows |-> <<>>, exists |-> FALSE]

\* csv.writer's text for one field: '' for None, str() of an int
FieldOf(v) == IF v.isNone THEN <<>> ELSE IntToStr(v.val)

\* Signals.write_csv
write_csv(sigs) ==
    LET pairs == get_all_bssids(sigs)
        bssids == [i \in 1..Len(pairs) |-> pairs[i][1]]
    IN  [header |-> <<(<<"X">>), (<<"Y">>)>> \o
                    [i \in 1..Len(pairs) |-> FormatHeader(pairs[i])],
         rows |-> [r \in 1..Len(sigs) |->
                     <<IntToStr(sigs[r].pos[1]), IntToStr(sigs[r].pos[2])>> \o
                     LET vs == get_all_rssi(sigs[r].ps, bssids)
                     IN  [i \in 1..Len(vs) |-> FieldOf(vs[i])]],
         exists |-> TRUE]

\* one step of csv.DictReader: the row as a dict.  The keys are the distinct
\* field names in order of first occurrence; a name's value is the field under
\* its last occurrence, None (restval) where the row is too short.
RECURSIVE FieldNames(_, _)
FieldNames(header, have) ==
    IF header = <<>> THEN <<>>
    ELSE IF Head(header) \in have THEN FieldNames(Tail(header), have)
    ELSE <<Head(header)>> \o FieldNames(Tail(header), have \cup {Head(header)})

LastIndex(header, k) ==
    CHOOSE i \in 1..Len(header) :
        header[i] = k /\ \A j \in (i + 1)..Len(header) : header[j] # k

RowValue(header, row, k) ==
    LET i == LastIndex(header, k)
    IN  IF i <= Len(row) THEN [isNone |-> FALSE, s |-> row[i]]
        ELSE [isNone |-> TRUE, s |-> <<>>]

\* int(row.pop(k)): KeyError without the column, TypeError for None,
\* ValueError for a str that is no integer
PopInt(header, row, k) ==
    IF ~(\E i \in 1..Len(header) : header[i] = k)
    THEN [err |-> "KeyError", val |-> 0]
    ELSE LET v == RowValue(header, row, k)
         IN  IF v.isNone THEN [err |-> "TypeError", val |-> 0]
             ELSE LET r == ParseInt(v.s)
                  IN  IF r.ok THEN [err |-> "none", val |-> r.val]
                      ELSE [err |-> "ValueError", val |-> 0]

\* the loop `for k, v in row.items()` of read_csv over the columns left after
\* X and Y were popped
RECURSIVE RowItems(_, _, _, _)
RowItems(header, row, names, p) ==
    IF names = <<>>
    THEN \* a longer row holds its surplus under the key None: None.split fails
         IF Len(row) > Len(header) THEN [err |-> "AttributeError", ps |-> p]
         ELSE [err |-> "none", ps |-> p]
    ELSE LET k == Head(names)
             sp == SplitHeader(k)
             v == RowValue(header, row, k)
         IN  IF ~sp.ok THEN [err |-> "ValueError", ps |-> p]
             ELSE IF v.isNone THEN [err |-> "TypeError", ps |-> p]
             ELSE IF v.s = <<>> THEN RowItems(header, row, Tail(names), p)
             ELSE LET r == ParseInt(v.s)
                  IN  IF ~r.ok THEN [err |-> "ValueError", ps |-> p]
                      ELSE RowItems(header, row, Tail(names),
                                    add_signal(p, Signal(sp.ssid, sp.bssid, r.val)))

\* the body of read_csv's loop up to the two add_point_signals calls
ReadRow(header, row) ==
    LET x == PopInt(header, row, <<"X">>)
        y == PopInt(header, row, <<"Y">>)
        names == FieldNames(header, {<<"X">>, <<"Y">>})
    IN  IF x.err # "none" THEN [err |-> x.err, pos |-> <<0, 0>>, ps |-> EmptyPS]
        ELSE IF y.err # "none" THEN [err |-> y.err, pos |-> <<0, 0>>, ps |-> EmptyPS]
        ELSE LET it == RowItems(header, row, names, EmptyPS)
             IN  [err |-> it.err, pos |-> <<x.val, y.val>>, ps |-> it.ps]

RECURSIVE ReadRows(_, _, _, _)
ReadRows(header, rows, sigs, cb) ==
    IF rows = <<>> THEN [signals |-> sigs, calls |-> cb, err |-> "none"]
    ELSE IF Head(rows) = <<>> THEN ReadRows(header, Tail(rows), sigs, cb)
    ELSE LET r == ReadRow(header, Head(rows))
         IN  IF r.err # "none" THEN [signals |-> sigs, calls |-> cb, err |-> r.err]
             ELSE ReadRows(header, Tail(rows),
                           add_point_signals(sigs, r.pos, r.ps),
                           Append(cb, r.pos))

\* Signals.read_csv on file f into the store sigs: the store, the positions the
\* callback was called with, and the exception that ended it
read_csv(f, sigs) == ReadRows(f.header, f.rows, sigs, <<>>)

\* ------------------------------------------------------------------- Rbf

RECURSIVE SumTo(_, _)
\* f[1] + ... + f[n]
SumTo(f, n) == IF n = 0 THEN 0 ELSE f[n] + SumTo(f, n - 1)

Abs(n) == IF n < 0 THEN -n ELSE n

RECURSIVE Gcd(_, _)
Gcd(a, b) == IF b = 0 THEN a ELSE Gcd(b, a % b)

\* a fraction num/den in lowest terms with a positive denominator
Rat(num, den) ==
    LET g == Gcd(Abs(num), Abs(den))
        sg == IF den < 0 THEN -1 ELSE 1
    IN  <<(sg * num) \div g, (sg * den) \div g>>

\* the Euclidean norm of p - q; the positions used keep it an integer
Dist(p, q) ==
    LET dx == Abs(p[1] - q[1])
        dy == Abs(p[2] - q[2])
    IN  CHOOSE r \in 0..(dx + dy) : r * r = dx * dx + dy * dy

\* the 'linear' basis function of Rbf: the radius itself
Kernel(p, q) == Dist(p, q)

\* M without row 1 and column j
Minor(M, j) ==
    [r \in 1..(Len(M) - 1) |->
        [c \in 1..(Len(M) - 1) |-> M[r + 1][IF c < j THEN c ELSE c + 1]]]

RECURSIVE Det(_)
Det(M) ==
    IF Len(M) = 0 THEN 1
    ELSE IF Len(M) = 1 THEN M[1][1]
    ELSE SumTo([j \in 1..Len(M) |->
                   (IF j % 2 = 1 THEN 1 ELSE -1) * M[1][j] * Det(Minor(M, j))],
               Len(M))

\* M with column j replaced by the vector z
WithColumn(M, j, z) ==
    [r \in 1..Len(M) |-> [c \in 1..Len(M) |-> IF c = j THEN z[r] ELSE M[r][c]]]

SeqMax(xs) == CHOOSE m \in {xs[i] : i \in 1..Len(xs)} : \A i \in 1..Len(xs) : xs[i] <= m
SeqMin(xs) == CHOOSE m \in {xs[i] : i \in 1..Len(xs)} : \A i \in 1..Len(xs) : m <= xs[i]

\* Rbf(x, y, z, function='linear'): the exception the constructor ends with
\* ("none" if it returns), the matrix A of pairwise kernel values, its
\* determinant, and the numerators of the weights (nodes = numer / det, the
\* solution of A * nodes = z).  The default epsilon divides by the number of
\* coordinates in which the points differ; an empty input has no maximum.
RbfInit(x, y, z) ==
    LET n == Len(x)
        pt(i) == <<x[i], y[i]>>
        A == [i \in 1..n |-> [j \in 1..n |-> Kernel(pt(i), pt(j))]]
        d == Det(A)
        edges == (IF n > 0 /\ SeqMax(x) # SeqMin(x) THEN 1 ELSE 0) +
                 (IF n > 0 /\ SeqMax(y) # SeqMin(y) THEN 1 ELSE 0)
        none == [err |-> "none", x |-> x, y |-> y, det |-> 1, numer |-> <<>>]
    IN  IF n = 0 THEN [none EXCEPT !.err = "ValueError"]
        ELSE IF edges = 0 THEN [none EXCEPT !.err = "ZeroDivisionError"]
        ELSE IF d = 0 THEN [none EXCEPT !.err = "LinAlgError"]
        ELSE [none EXCEPT !.det = d,
                          !.numer = [j \in 1..n |-> Det(WithColumn(A, j, z))]]

\* Rbf.__call__ at one point q: the sum of nodes[j] * kernel(q, point j)
RbfCall(r, q) ==
    Rat(SumTo([j \in 1..Len(r.x) |-> r.numer[j] * Kernel(q, <<r.x[j], r.y[j]>>)],
              Len(r.x)),
        r.det)

\* ------------------------------------------------------------- contour

RECURSIVE Arange(_, _, _)
\* np.arange(start, stop, step) for a positive step
Arange(start, stop, step) ==
    IF start >= stop THEN <<>> ELSE <<start>> \o Arange(start + step, stop, step)

\* a variant without the appended level 0
LevelsNoCap == Arange(-85, -25, 10)

\* the levels handed to contourf: np.append(np.arange(-85, -25, 10), [0])
Levels == Arange(-85, -25, 10) \o <<0>>

\* contourf fills band k between Levels[k] and Levels[k + 1]: closed at the
\* top, the lowest band closed at both ends; nothing is filled outside the
\* levels.  The band of the value num/den (den > 0), 0 if it has none.
BandOfRat(num, den) ==
    LET in(k) == /\ num <= Levels[k + 1] * den
                 /\ \/ Levels[k] * den < num
                    \/ k = 1 /\ Levels[k] * den = num
    IN  IF \E k \in 1..(Len(Levels) - 1) : in(k)
        THEN CHOOSE k \in 1..(Len(Levels) - 1) : in(k)
        ELSE 0

BandOf(v) == BandOfRat(v, 1)

\* ---------------------------------------------------------- show_heatmap

\* self.plan.width(), self.plan.height(): the size of the floor plan image
PlanWidth == 12
PlanHeight == 5

\* the lattice of np.meshgrid(np.linspace(0, width, n), np.linspace(0, height, n))
\* flattened row by row, at its first and last coordinate in each direction
\* (linspace yields both ends for any n >= 2)
GridPoints ==
    <<(<<0, 0>>), (<<PlanWidth, 0>>), (<<0, PlanHeight>>), (<<PlanWidth, PlanHeight>>)>>

\* the loop of show_heatmap over positions(): (pos, Signal) where the bssid is present
RECURSIVE CollectSignals(_, _)
CollectSignals(sigs, bssid) ==
    IF sigs = <<>> THEN <<>>
    ELSE (IF bssid \in DOMAIN Head(sigs).ps
          THEN <<(<<Head(sigs).pos, Head(sigs).ps[bssid]>>)>> ELSE <<>>)
         \o CollectSignals(Tail(sigs), bssid)

\* the entries of ChooseHeatmapDialog's combo box: the data of each item
ComboData(sigs) == {get_all_bssids(sigs)[i][1] : i \in 1..Len(get_all_bssids(sigs))}

\* the grid values r(grid_x, grid_y) and, when `contour` is checked, the bands
\* plot_contour fills them with
GridField(r) ==
    IF r.err = "none"
    THEN [g \in 1..Len(GridPoints) |-> RbfCall(r, GridPoints[g])]
    ELSE <<>>

HeatmapOf(bssid, isNone, contour, samples, r, grid_z) ==
    [bssid |-> bssid, isNone |-> isNone, n |-> Len(samples), invoked |-> TRUE,
     err |-> r.err, contour |-> contour, field |-> grid_z,
     bands |-> IF contour
               THEN [g \in 1..Len(grid_z) |-> BandOfRat(grid_z[g][1], grid_z[g][2])]
               ELSE <<>>,
     samples |-> samples]

HeatmapRbf(bssid, isNone, contour, samples, r) ==
    HeatmapOf(bssid, isNone, contour, samples, r, GridField(r))

HeatmapSamples(bssid, isNone, contour, samples) ==
    HeatmapRbf(bssid, isNone, contour, samples,
               RbfInit([i \in 1..Len(samples) |-> samples[i][1][1]],
                       [i \in 1..Len(samples) |-> samples[i][1][2]],
                       [i \in 1..Len(samples) |-> samples[i][2].rssi]))

\* show_heatmap from the collected list on: the arrays x, y, z, the Rbf, the
\* grid values, and the contour bands.  Nothing stands between the loop that
\* collects the samples and the Rbf constructor.
Heatmap(sigs, bssid, isNone, contour) ==
    HeatmapSamples(bssid, isNone, contour,
                   IF isNone THEN <<>> ELSE CollectSignals(sigs, bssid))

\* ------------------------------------------------------------ environment

KA == <<"a">>
KB == <<"b">>
KAB == <<"a", ";", "b">>
LN == <<"n">>
LM == <<"m">>
LNM == <<"n", ";", "m">>

PS1(k, l, r) == add_signal(EmptyPS, Signal(l, k, r))

\* what WifiQuery.get_signals can return: the visible networks at a click.
\* "hw": the keys are hardware addresses, which hold no ';' (a network name
\* may).  "any": a key may be any text.
Scans(ks) ==
    {PS1(KA, LN, -40),
     add_signal(PS1(KA, LNM, -7), Signal(LN, KB, -40))}
    \cup (IF ks = "any" THEN {PS1(KAB, LN, -60)} ELSE {EmptyPS})

\* where the user can click: event.pos() on the floor plan
Points == {<<0, 0>>, <<12, 0>>, <<0, 5>>}

F(h, r) == [header |-> h, rows |-> r, exists |-> TRUE]
HX == <<"X">>
HY == <<"Y">>

\* survey files not written by this program that load_survey may be given
ExternalFiles ==
    {F(<<HX, HY, KA \o <<";">> \o LN>>,
       <<(<<(<<"0">>), (<<"0">>), (<<"-", "4", "0">>)>>),
         (<<(<<"1", "2">>), (<<"0">>), (<<"x">>)>>),
         (<<(<<"0">>), (<<"5">>), (<<"-", "7">>)>>)>>),
     F(<<HX, HY, KA>>,
       <<(<<(<<"0">>), (<<"0">>), (<<"-", "4", "0">>)>>)>>),
     F(<<HX, HY, KA>>, <<>>),
     F(<<HX, HY, KA \o <<";">> \o LN, KB \o <<";">> \o LM>>,
       <<(<<(<<"0">>), (<<"0">>), (<<"-", "4", "0">>), (<<>>)>>),
         (<<(<<"1", "2">>), (<<"0">>), (<<>>), (<<"-", "7", "5">>)>>)>>),
     F(<<HX, HY, KA \o <<";">> \o LN, KB \o <<";">> \o LM>>,
       <<(<<(<<"0">>), (<<"5">>), (<<>>), (<<"-", "7", "5">>)>>),
         (<<(<<"z">>), (<<"0">>), (<<"-", "7">>), (<<"-", "7">>)>>)>>),
     F(<<HX, HY, KA \o <<";">> \o LN>>,
       <<(<<(<<"0">>), (<<"0">>), (<<"-", "4", "0">>)>>),
         <<>>,
         (<<(<<" ", "0">>), (<<"+", "0">>), (<<"-", "7">>)>>),
         (<<(<<"1", "2">>), (<<"0">>)>>)>>)}

\* ---------------------------------------------------------------- ghosts

\* the history of insertions: the position moves to the most recent end
Touch(rec, point) ==
    SelectSeq(rec, LAMBDA q : q # point) \o <<point>>

RECURSIVE TouchAll(_, _)
TouchAll(rec, ps) ==
    IF ps = <<>> THEN rec ELSE TouchAll(Touch(rec, Head(ps)), Tail(ps))

Put(lp, point, ps) ==
    [q \in DOMAIN lp \cup {point} |-> IF q = point THEN ps ELSE lp[q]]

\* the rows of a file that read_csv got past, as (pos, ps) insertions
RECURSIVE PutRows(_, _, _, _)
PutRows(lp, header, rows, n) ==
    IF n = 0 \/ rows = <<>> THEN lp
    ELSE IF Head(rows) = <<>> THEN PutRows(lp, header, Tail(rows), n)
    ELSE LET r == ReadRow(header, Head(rows))
         IN  PutRows(Put(lp, r.pos, r.ps), header, Tail(rows), n - 1)

NoHeatmap == [bssid |-> <<>>, isNone |-> TRUE, n |-> 0, invoked |-> FALSE,
              err |-> "none", contour |-> FALSE, field |-> <<>>, bands |-> <<>>,
              samples |-> <<>>]

\* ----------------------------------------------------------------- actions

InitWith(ks, vs) ==
    /\ keyspace \in ks
    /\ signals = <<>>
    /\ csvfile = NoFile
    /\ saved = <<>>
    /\ pre = <<>>
    /\ src = NoFile
    /\ calls = <<>>
    /\ err = "none"
    /\ lastOp = "start"
    /\ lastPut = <<>>
    /\ recency = <<>>
    /\ hm = NoHeatmap
    /\ steps = 0
    /\ fval \in vs
    /\ band = -1

\* App.__init__: FloorPlan() holds a fresh Signals()
Init == InitWith({"hw"}, {0})

\* FloorPlan.mousePressEvent with the left button
Click(point, ps) ==
    /\ steps < MaxSteps
    /\ signals' = add_point_signals(signals, point, ps)
    /\ calls' = <<point>>
    /\ pre' = signals
    /\ err' = "none"
    /\ lastOp' = "click"
    /\ lastPut' = Put(lastPut, point, ps)
    /\ recency' = Touch(recency, point)
    /\ src' = NoFile
    /\ hm' = NoHeatmap
    /\ steps' = steps + 1
    /\ UNCHANGED <<keyspace, csvfile, saved, fval, band>>

\* App.save_survey with a file name chosen
SaveSurvey ==
    /\ steps < MaxSteps
    /\ csvfile' = write_csv(signals)
    /\ saved' = signals
    /\ pre' = signals
    /\ calls' = <<>>
    /\ err' = "none"
    /\ lastOp' = "save"
    /\ src' = NoFile
    /\ hm' = NoHeatmap
    /\ steps' = steps + 1
    /\ UNCHANGED <<keyspace, signals, lastPut, recency, fval, band>>

\* App.load_survey with file f chosen
LoadSurvey(f) ==
    /\ steps < MaxSteps
    /\ f.exists
    /\ LET r == read_csv(f, signals)
       IN  /\ signals' = r.signals
           /\ calls' = r.calls
           /\ err' = r.err
           /\ lastPut' = PutRows(lastPut, f.header, f.rows, Len(r.calls))
           /\ recency' = TouchAll(recency, r.calls)
    /\ pre' = signals
    /\ src' = f
    /\ lastOp' = "load"
    /\ hm' = NoHeatmap
    /\ steps' = steps + 1
    /\ UNCHANGED <<keyspace, csvfile, saved, fval, band>>

\* the program is started again: App() builds a new FloorPlan and Signals;
\* the survey file written earlier is still on disk
Restart ==
    /\ steps < MaxSteps
    /\ signals # <<>>
    /\ signals' = <<>>
    /\ pre' = <<>>
    /\ src' = NoFile
    /\ calls' = <<>>
    /\ err' = "none"
    /\ lastOp' = "start"
    /\ lastPut' = <<>>
    /\ recency' = <<>>
    /\ hm' = NoHeatmap
    /\ steps' = steps + 1
    /\ UNCHANGED <<keyspace, csvfile, saved, fval, band>>

\* App.show_heatmap with the dialog accepted: currentData() is the chosen
\* item's bssid, None when the combo box is empty
ShowHeatmap(bssid, contour) ==
    /\ steps < MaxSteps
    /\ \/ bssid \in ComboData(signals)
       \/ ComboData(signals) = {} /\ bssid = <<>>
    /\ hm' = Heatmap(signals, bssid, ComboData(signals) = {}, contour)
    /\ err' = hm'.err
    /\ pre' = signals
    /\ calls' = <<>>
    /\ lastOp' = "heatmap"
    /\ src' = NoFile
    /\ steps' = steps + 1
    /\ UNCHANGED <<keyspace, signals, csvfile, saved, lastPut, recency, fval, band>>

\* plot_contour's classification of one field value
Classify ==
    /\ band = -1
    /\ band' = BandOf(fval)
    /\ lastOp' = "classify"
    /\ UNCHANGED <<keyspace, signals, csvfile, saved, pre, src, calls, err,
                   lastPut, recency, hm, steps, fval>>

Next ==
    \/ \E bssid \in {KA, KB, KAB, <<>>} : \E contour \in BOOLEAN : ShowHeatmap(bssid, contour)
    \/ \E point \in Points : \E ps \in Scans(keyspace) : Click(point, ps)
    \/ SaveSurvey
    \/ LoadSurvey(csvfile)
    \/ \E f \in ExternalFiles : LoadSurvey(f)
    \/ Restart

Spec == Init /\ [][Next]_vars

\* the same program where the scan may also report a key holding a ';'
InitAnyKey == InitWith({"any"}, {0})
SpecAnyKey == InitAnyKey /\ [][Next]_vars

\* the contour classification alone, over a range of field values
InitBands == InitWith({"hw"}, (-FieldLo)..FieldHi)
NextBands == Classify
SpecBands == InitBands /\ [][NextBands]_vars

\* ------------------------------------------------------------ properties

\* (position -> {emitter key: strength}): the content of a store
Content(sigs) ==
    [p \in Positions(sigs) |-> [k \in DOMAIN At(sigs, p) |-> At(sigs, p)[k].rssi]]

NoSemiKeys(sigs) ==
    \A i \in 1..Len(sigs) : \A k \in DOMAIN sigs[i].ps : FirstSemi(k) = 0

AllKeys(sigs) == UNION {DOMAIN sigs[i].ps : i \in 1..Len(sigs)}

\* the last operation read the file save_survey wrote, into an empty store
LoadedBack ==
    /\ lastOp = "load"
    /\ pre = <<>>
    /\ csvfile.exists
    /\ src = csvfile

RoundTrips(sigs) ==
    LET r == read_csv(write_csv(sigs), <<>>)
    IN  r.err = "none" /\ Content(r.signals) = Content(sigs)

\* C1 as stated: writing any store and reading the output into an empty store
\* gives back the same (position -> {emitter key: strength}) content, whatever
\* the emitter keys are.
C1_RoundTripAnyKey ==
    LoadedBack => err = "none" /\ Content(signals) = Content(saved)

\* C1, amended: for a store whose emitter keys hold no ';', write_csv followed
\* by read_csv into an empty store gives back the same (position -> {emitter
\* key: strength}) content; network names may hold ';', and a name may differ
\* between positions.
C1_RoundTrip ==
    /\ NoSemiKeys(signals) => RoundTrips(signals)
    /\ LoadedBack /\ NoSemiKeys(saved) => err = "none" /\ Content(signals) = Content(saved)

C1_Witness ==
    /\ LoadedBack
    /\ NoSemiKeys(saved)
    /\ \E i \in 1..Len(saved) : \E k \in DOMAIN saved[i].ps :
           FirstSemi(saved[i].ps[k].ssid) # 0
    /\ Content(signals) = Content(saved)

\* C3: the store holds, at every position, exactly the PointSignals last
\* passed to add_point_signals for it, in one entry: nothing of an earlier
\* PointSignals at that position is left.
C3_Overwrite ==
    /\ Positions(signals) = DOMAIN lastPut
    /\ \A p \in DOMAIN lastPut :
          /\ At(signals, p) = lastPut[p]
          /\ Cardinality({i \in 1..Len(signals) : signals[i].pos = p}) = 1

C3_Witness ==
    /\ lastOp = "click"
    /\ calls[1] \in Positions(pre)
    /\ Len(signals) > 1
    /\ \E k \in DOMAIN At(pre, calls[1]) : k \notin DOMAIN At(signals, calls[1])

\* position q is stored and its PointSignals has no entry for key e
AbsentAt(sigs, q, e) == q \in Positions(sigs) /\ e \notin DOMAIN At(sigs, q)

KeyColumn(sigs, e) ==
    CHOOSE i \in 1..Len(get_all_bssids(sigs)) : get_all_bssids(sigs)[i][1] = e

\* what C4 says of key e, recorded somewhere and not in row r of the store:
\* get_all_rssi gives None for it, write_csv leaves its field of the row
\* empty, and (the part `back`) after read_csv into an empty store the row's
\* position has no entry for it
AbsenceKept(e, r, back) ==
    LET pairs == get_all_bssids(signals)
        bssids == [i \in 1..Len(pairs) |-> pairs[i][1]]
        c == KeyColumn(signals, e)
        rd == read_csv(write_csv(signals), <<>>)
    IN  /\ get_all_rssi(signals[r].ps, bssids)[c] = NoneVal
        /\ write_csv(signals).rows[r][2 + c] = <<>>
        /\ back => rd.err = "none" /\ AbsentAt(rd.signals, signals[r].pos, e)

\* C4 as stated: when a key e is recorded at some position and not at position
\* q, then get_all_rssi gives None for e at q, write_csv leaves e's field of
\* q's row empty, and after read_csv q's PointSignals has no entry for e,
\* whatever the emitter keys are.
C4_AbsenceAnyKey ==
    \A e \in AllKeys(signals) : \A r \in 1..Len(signals) :
        e \notin DOMAIN signals[r].ps => AbsenceKept(e, r, TRUE)

\* C4, amended: when a key e is recorded at some position and not at position
\* q, then get_all_rssi gives None for e at q and write_csv leaves e's field
\* of q's row empty; and when no emitter key of the store holds a ';', q's
\* PointSignals has no entry for e after read_csv.
C4_Absence ==
    \A e \in AllKeys(signals) : \A r \in 1..Len(signals) :
        e \notin DOMAIN signals[r].ps => AbsenceKept(e, r, NoSemiKeys(signals))

C4_Witness ==
    /\ LoadedBack
    /\ err = "none"
    /\ NoSemiKeys(saved)
    /\ \E e \in AllKeys(saved) : \E q \in Positions(saved) :
          /\ AbsentAt(saved, q, e)
          /\ AbsentAt(signals, q, e)
          /\ e \in AllKeys(signals)

\* the ssid key e carries at the most recently inserted position that has it
LatestLabel(e) ==
    LET has == SelectSeq(recency, LAMBDA q : e \in DOMAIN At(signals, q))
    IN  At(signals, has[Len(has)])[e].ssid

\* C5: get_all_bssids gives exactly the distinct keys of the store, ascending,
\* each with the label of the latest insertion still in the store that has it.
C5_LatestLabel ==
    LET r == get_all_bssids(signals)
    IN  /\ {r[i][1] : i \in 1..Len(r)} = AllKeys(signals)
        /\ \A i \in 1..(Len(r) - 1) : StrLess(r[i][1], r[i + 1][1])
        /\ \A i \in 1..Len(r) : r[i][2] = LatestLabel(r[i][1])

\* C6: show_heatmap for a selection with no sample ends with
\* UnknownEmitterSelected and without the interpolator having been invoked.
C6_EmptySelectionRejected ==
    lastOp = "heatmap" /\ hm.n = 0 =>
        hm.err = "UnknownEmitterSelected" /\ ~hm.invoked

\* C7: with exactly one sample the interpolation succeeds and the field is
\* that sample's strength at every grid point.
C7_SingleSampleConstant ==
    lastOp = "heatmap" /\ hm.n = 1 =>
        /\ hm.err = "none"
        /\ Len(hm.field) = Len(GridPoints)
        /\ \A g \in 1..Len(hm.field) : hm.field[g] = <<hm.samples[1][2].rssi, 1>>

FieldAt(p) == hm.field[CHOOSE g \in 1..Len(GridPoints) : GridPoints[g] = p]

Recovered ==
    /\ hm.err = "none"
    /\ \A i \in 1..Len(hm.samples) :
          FieldAt(hm.samples[i][1]) = <<hm.samples[i][2].rssi, 1>>

\* C2: for one emitter with at least one sample, at distinct positions, the
\* field evaluated at each sample's position is that sample's strength.
C2_ExactRecovery == lastOp = "heatmap" /\ hm.n >= 1 => Recovered

\* the part of C2 that the code has: with two or more samples the linear
\* system has a solution and the field takes each sample's strength at its
\* position
ExactRecoveryFromTwo == lastOp = "heatmap" /\ hm.n >= 2 => Recovered

\* a field is text for an integer, as int() reads it
IsIntText(s) ==
    LET t == Strip(s)
    IN  DigitsOk(IF t # <<>> /\ (Head(t) = "-" \/ Head(t) = "+") THEN Tail(t) ELSE t)

\* a row that cannot be parsed: X or Y missing or no integer, a column whose
\* header has no ';', a strength that is missing or neither empty nor an
\* integer, or more fields than columns
Malformed(header, row) ==
    \/ Len(row) < 2 \/ ~IsIntText(row[1]) \/ ~IsIntText(row[2])
    \/ Len(row) # Len(header)
    \/ \E c \in 3..Len(header) :
          \/ FirstSemi(header[c]) = 0
          \/ row[c] # <<>> /\ ~IsIntText(row[c])

\* the rows DictReader yields: the blank ones are skipped
DataRows(f) == SelectSeq(f.rows, LAMBDA row : row # <<>>)

HasMalformed(f) == \E i \in 1..Len(DataRows(f)) : Malformed(f.header, DataRows(f)[i])

FirstMalformed(f) ==
    CHOOSE i \in 1..Len(DataRows(f)) :
        /\ Malformed(f.header, DataRows(f)[i])
        /\ \A j \in 1..(i - 1) : ~Malformed(f.header, DataRows(f)[j])

\* the store after inserting rows 1..n of the file, in order
RECURSIVE Inserted(_, _, _)
Inserted(sigs, f, n) ==
    IF n = 0 THEN sigs
    ELSE LET r == ReadRow(f.header, DataRows(f)[n])
         IN  add_point_signals(Inserted(sigs, f, n - 1), r.pos, r.ps)

\* C8: when read_csv meets a malformed row, an error reaches the caller; the
\* store is then the prior store with exactly the rows before that row
\* inserted, in order, and the callback has run once for each of them and for
\* no other row.
C8_MalformedStops ==
    lastOp = "load" /\ HasMalformed(src) =>
        LET n == FirstMalformed(src) - 1
        IN  /\ err # "none"
            /\ signals = Inserted(pre, src, n)
            /\ calls = [i \in 1..n |-> ReadRow(src.header, DataRows(src)[i]).pos]

C8_Witness ==
    /\ lastOp = "load"
    /\ HasMalformed(src)
    /\ FirstMalformed(src) > 1
    /\ FirstMalformed(src) < Len(DataRows(src))
    /\ pre # <<>>
    /\ err = "ValueError"
    /\ Len(calls) = FirstMalformed(src) - 1

\* C9 as stated: every field value v >= -85 falls in one of the six bands,
\* the top band taking every value from -35 up with no upper limit.
C9_OpenTopBand ==
    band # -1 /\ fval >= -85 =>
        /\ band \in 1..6
        /\ fval > -35 => band = 6

\* C9, amended: the levels are -85, -75, -65, -55, -45, -35 and 0; every field
\* value v with -85 <= v <= 0 falls in exactly one of the six bands between
\* consecutive levels, the top band running from -35 up to 0; a value above 0
\* (or below -85) falls in no band.
C9_Bands ==
    band # -1 =>
        /\ Levels = <<-85, -75, -65, -55, -45, -35, 0>>
        /\ (fval >= -85 /\ fval <= 0) =>
              /\ band \in 1..6
              /\ Levels[band] <= fval /\ fval <= Levels[band + 1]
              /\ \A k \in 1..6 : k # band => ~(Levels[k] < fval /\ fval < Levels[k + 1])
        /\ (fval > 0 \/ fval < -85) => band = 0

C9_Witness == band = 6 /\ fval > -35 /\ fval < 0

\* C10: for every key, the samples show_heatmap collects from the store hold
\* at most one sample per position.
C10_OneSamplePerPosition ==
    /\ \A e \in AllKeys(signals) :
          LET c == CollectSignals(signals, e)
          IN  \A i, j \in 1..Len(c) : c[i][1] = c[j][1] => i = j
    /\ lastOp = "heatmap" =>
          \A i, j \in 1..Len(hm.samples) : hm.samples[i][1] = hm.samples[j][1] => i = j

C10_Witness ==
    /\ lastOp = "heatmap"
    /\ hm.n >= 2
    /\ [i \in 1..Len(signals) |-> signals[i].pos] # recency

====
